---- MODULE Spec2Model ----
(***************************************************************************)
(* Model of the charge simulation of simulation.py (class                  *)
(* ChargeSimulation) driven by the callbacks of ui.py (class MainWindow).  *)
(*                                                                         *)
(* Number representation.  The program computes in float64; the model      *)
(* computes on an integer grid, every division truncating toward zero      *)
(* (Quot).  Lengths are whole world units, charges are in units of 1e-6,   *)
(* masses in units of 1e-6, k_e in units of 1e6 and time in slider steps   *)
(* (1/2000 s, the unit of MainWindow.update_dt), so a quantity of the      *)
(* model is the program's quantity on a coarser grid, not the same number. *)
(* Array rows are numbered from 1 (the program numbers them from 0);       *)
(* preset indices are the program's, from 0.                               *)
(***************************************************************************)
EXTENDS Integers, Sequences, FiniteSets, TLC

(***************************************************************************)
(* Bounds of the model.                                                    *)
(***************************************************************************)
\* Ticks advanced (while running) between two resets.
MaxTicks == 3

(***************************************************************************)
(* Program constants.                                                      *)
(***************************************************************************)
\* Coulomb's constant, 8.988e9, in units of 1e6.
k_e == 8988
\* Default time step, 0.005 s, in slider steps of 1/2000 s.
default_dt == 10
\* The boundary update() hands to update_physics: (-100000, 100000).
boundary == <<-100000, 100000>>
\* preset_index=None, the default argument of reset_simulation: a value
\* that is no preset index.
None == -1

(***************************************************************************)
(* Vectors of three components, and float arithmetic on the grid.          *)
(***************************************************************************)
Abs(a) == IF a < 0 THEN -a ELSE a

\* a / b for b > 0: like the float quotient it has the sign of a and is
\* odd in a; on the grid it drops the fraction.
Quot(a, b) == IF a >= 0 THEN a \div b ELSE -((-a) \div b)

Zero3 == <<0, 0, 0>>

VAdd(u, v) == [c \in 1..3 |-> u[c] + v[c]]

VSub(u, v) == [c \in 1..3 |-> u[c] - v[c]]

VScale(s, v) == [c \in 1..3 |-> s * v[c]]

VQuot(v, m) == [c \in 1..3 |-> Quot(v[c], m)]

Dot(u, v) == u[1] * v[1] + u[2] * v[2] + u[3] * v[3]

RECURSIVE SqrtFrom(_, _)
SqrtFrom(n, d) == IF (d + 1) * (d + 1) > n THEN d ELSE SqrtFrom(n, d + 1)

\* np.sqrt on the grid: the largest d with d * d <= n.
Sqrt(n) == SqrtFrom(n, 0)

\* k / dist**3 for k >= 0 and dist >= 1, truncated.  Dividing three times
\* by dist gives the same quotient as dividing once by dist**3 and never
\* forms the cube.
CubeQuot(k, dist) == ((k \div dist) \div dist) \div dist

(***************************************************************************)
(* The preset catalog (preset_configs).  The program's catalog holds eight *)
(* presets of 2 to 20 particles and is open to more; the model keeps three *)
(* of 3, 2 and 3 particles.  Preset 0 is the first three rows of           *)
(* "Orbital", preset 1 is "Dipole"; preset 2 stands for a further preset,  *)
(* heavy particles next to the upper boundary, the second drifting out.    *)
(***************************************************************************)
Charge(pos, vel, q, m) == [pos |-> pos, vel |-> vel, q |-> q, m |-> m, active |-> TRUE]

preset_configs ==
    [p \in 0..2 |->
        CASE p = 0 ->
               [name |-> "Orbital",
                charges |-> << Charge(<<5, 5, 5>>, <<0, 0, 0>>, 8, 50000),
                               Charge(<<7, 5, 5>>, <<0, 40, 0>>, -2, 1000),
                               Charge(<<3, 5, 5>>, <<0, -40, 0>>, -2, 1000) >>,
                colors |-> << <<10, 8, 0, 9>>, <<0, 5, 10, 8>>, <<0, 5, 10, 8>> >>]
          [] p = 1 ->
               [name |-> "Dipole",
                charges |-> << Charge(<<4, 5, 5>>, <<0, 0, 0>>, 5, 10000),
                               Charge(<<6, 5, 5>>, <<0, 0, 0>>, -5, 10000) >>,
                colors |-> << <<10, 0, 0, 9>>, <<0, 0, 10, 9>> >>]
          [] p = 2 ->
               [name |-> "Edge",
                charges |-> << Charge(<<99995, 5, 5>>, <<0, 1, 0>>, -4, 50000),
                               Charge(<<99990, 5, 5>>, <<1, 0, 0>>, 4, 50000),
                               Charge(<<99995, 5, 15>>, <<0, 0, 0>>, 4, 50000) >>,
                colors |-> << <<3, 3, 10, 10>>, <<10, 3, 3, 10>>, <<10, 3, 3, 10>> >>]]

PresetIndex == DOMAIN preset_configs

\* The positions of the dt slider the model moves it to (its range is 1..20).
SliderValues == {1, 5, 10, 20}

(***************************************************************************)
(* ChargeSimulation.compute_forces                                         *)
(***************************************************************************)
\* force_mag = k_e * q_i * q_j / dist**3 with dist = sqrt(r.r) + 1e-14.
\* A pair so far apart along one axis that the quotient truncates to 0 is
\* decided on that axis alone (dist is at least |r[c]|), so that r.r is
\* only formed for near pairs.  At dist = 0 on the grid (coincident
\* particles) the softening term is the whole distance: dividing by its
\* cube does not shrink k, and r itself is the zero vector.
force_mag(qi, qj, r) ==
    LET k == k_e * qi * qj
    IN  IF \E c \in 1..3 : r[c] # 0 /\ CubeQuot(Abs(k), Abs(r[c])) = 0
        THEN 0
        ELSE LET dist == Sqrt(Dot(r, r))
             IN  IF dist = 0 THEN k
                 ELSE IF k >= 0 THEN CubeQuot(k, dist) ELSE -CubeQuot(-k, dist)

\* The body of the inner loop for one pair i < j of active particles.
PairForces(charges, forces, i, j) ==
    LET r == VSub(charges[j].pos, charges[i].pos)
        f == VScale(force_mag(charges[i].q, charges[j].q, r), r)
    IN  [forces EXCEPT ![i] = VAdd(forces[i], f), ![j] = VSub(forces[j], f)]

RECURSIVE InnerLoopNoSkip(_, _, _, _)
\* Faulty variant of InnerLoop: the test of charges[j]["active"] is missing.
InnerLoopNoSkip(charges, forces, i, j) ==
    IF j > Len(charges) THEN forces
    ELSE InnerLoopNoSkip(charges, PairForces(charges, forces, i, j), i, j + 1)

RECURSIVE InnerLoop(_, _, _, _)
\* for j in range(i + 1, n): skip inactive j, else accumulate the pair.
InnerLoop(charges, forces, i, j) ==
    IF j > Len(charges) THEN forces
    ELSE IF ~charges[j].active THEN InnerLoop(charges, forces, i, j + 1)
    ELSE InnerLoop(charges, PairForces(charges, forces, i, j), i, j + 1)

RECURSIVE OuterLoop(_, _, _)
\* for i in range(n): skip inactive i, else run the inner loop.
OuterLoop(charges, forces, i) ==
    IF i > Len(charges) THEN forces
    ELSE IF ~charges[i].active THEN OuterLoop(charges, forces, i + 1)
    ELSE OuterLoop(charges, InnerLoop(charges, forces, i, i + 1), i + 1)

compute_forces(charges) ==
    OuterLoop(charges, [i \in 1..Len(charges) |-> Zero3], 1)

(***************************************************************************)
(* ChargeSimulation.update_physics                                         *)
(***************************************************************************)
\* Faulty variant of OutOfBounds: a particle exactly on the boundary leaves too.
OutOfBoundsInclusive(pos, bnd) ==
    (\E c \in 1..3 : pos[c] <= bnd[1]) \/ (\E c \in 1..3 : pos[c] >= bnd[2])

\* np.any(pos < boundary[0]) or np.any(pos > boundary[1])
OutOfBounds(pos, bnd) ==
    (\E c \in 1..3 : pos[c] < bnd[1]) \/ (\E c \in 1..3 : pos[c] > bnd[2])

\* Faulty variant of StepParticle: explicit Euler, the position moves by the
\* velocity of before the step.
StepParticleExplicit(ch, force, dt, bnd) ==
    LET vel == VAdd(ch.vel, VScale(dt, VQuot(force, ch.m)))
        pos == VAdd(ch.pos, VScale(dt, ch.vel))
    IN  [ch EXCEPT !.vel = vel, !.pos = pos, !.active = ~OutOfBounds(pos, bnd)]

\* The body of the loop for one active particle: velocity first, then the
\* position from the new velocity, then the boundary test.
StepParticle(ch, force, dt, bnd) ==
    LET vel == VAdd(ch.vel, VScale(dt, VQuot(force, ch.m)))
        pos == VAdd(ch.pos, VScale(dt, vel))
    IN  [ch EXCEPT !.vel = vel, !.pos = pos, !.active = ~OutOfBounds(pos, bnd)]

\* Faulty variant of update_physics: the test of charges[i]["active"] is missing.
update_physics_all(charges, forces, dt, bnd) ==
    [i \in 1..Len(charges) |-> StepParticle(charges[i], forces[i], dt, bnd)]

\* The array after the in-place update; rows are independent of each other
\* because the forces were computed before the loop.
update_physics(charges, forces, dt, bnd) ==
    [i \in 1..Len(charges) |->
        IF charges[i].active
        THEN StepParticle(charges[i], forces[i], dt, bnd)
        ELSE charges[i]]

(***************************************************************************)
(* State.  NumPy arrays are mutable objects that several names may share,  *)
(* so the arrays live in a store indexed by address and the simulation     *)
(* holds addresses.  The arrays of preset p are at address p; an array     *)
(* made by .copy() is at OwnAddr (the array it replaces is unreachable     *)
(* from then on).                                                          *)
(***************************************************************************)
VARIABLES
    heap_charges,    \* address -> structured array of charge_dtype
    heap_colors,     \* address -> array of colors
    self_charges,    \* self.charges: the address of the simulation's charge array
    self_colors,     \* self.colors: the address of the simulation's color array
    current_preset,  \* self.current_preset
    trajectories,    \* self.trajectories: one list of positions per particle
    dt,              \* self.dt, in slider steps
    running,         \* self.running
    pause_btn,       \* text of MainWindow.pause_btn
    ticks,           \* ticks advanced since the arrays were last loaded
    last             \* the callback that ran last

vars == <<heap_charges, heap_colors, self_charges, self_colors, current_preset,
          trajectories, dt, running, pause_btn, ticks, last>>

OwnAddr == Cardinality(PresetIndex)

Addr == PresetIndex \cup {OwnAddr}

\* self.charges and self.colors, dereferenced.
charges == heap_charges[self_charges]

colors == heap_colors[self_colors]

\* self.presets (the module-level preset_configs, as it is now).
presets ==
    [p \in PresetIndex |-> [charges |-> heap_charges[p], colors |-> heap_colors[p]]]

\* Faulty variant of np_copy: no copy is made, the result is the array itself.
np_copy_shared(addr) == addr

\* ndarray.copy(): the address of the new array holding the copy.
np_copy(addr) == OwnAddr

\* Faulty variant of EmptyTrajectories: one list too many.
EmptyTrajectoriesExtra(n) == [i \in 1..(n + 1) |-> <<>>]

\* [[] for _ in range(len(self.charges))]
EmptyTrajectories(n) == [i \in 1..n |-> <<>>]

\* Faulty variant of Record: only the particles still active are recorded.
RecordActive(trajs, chs) ==
    [i \in DOMAIN trajs |->
        IF i <= Len(chs) /\ chs[i].active THEN Append(trajs[i], chs[i].pos) ELSE trajs[i]]

\* for i in range(len(self.charges)): self.trajectories[i].append(pos[i].copy())
Record(trajs, chs) ==
    [i \in DOMAIN trajs |->
        IF i <= Len(chs) THEN Append(trajs[i], chs[i].pos) ELSE trajs[i]]

\* The three assignments __init__ and reset_simulation share: copy the
\* arrays of self.presets[p], start one empty trajectory per particle.
LoadPreset(p) ==
    /\ self_charges' = np_copy(p)
    /\ self_colors' = np_copy(p)
    /\ heap_charges' = [heap_charges EXCEPT ![np_copy(p)] = heap_charges[p]]
    /\ heap_colors' = [heap_colors EXCEPT ![np_copy(p)] = heap_colors[p]]
    /\ trajectories' = EmptyTrajectories(Len(heap_charges[p]))
    /\ ticks' = 0

(***************************************************************************)
(* ChargeSimulation.__init__, then MainWindow.__init__.                    *)
(***************************************************************************)
Init ==
    /\ dt = default_dt
    /\ current_preset = 0
    /\ self_charges = np_copy(0)
    /\ self_colors = np_copy(0)
    /\ heap_charges = [a \in Addr |-> preset_configs[IF a = OwnAddr THEN 0 ELSE a].charges]
    /\ heap_colors = [a \in Addr |-> preset_configs[IF a = OwnAddr THEN 0 ELSE a].colors]
    /\ trajectories = EmptyTrajectories(Len(preset_configs[0].charges))
    /\ running = FALSE
    /\ pause_btn = "Pause"
    /\ ticks = 0
    /\ last = "__init__"

(***************************************************************************)
(* ChargeSimulation.update, the timer's callback.                          *)
(***************************************************************************)
\* Faulty variant of update: the running flag is not consulted.
update_always ==
    /\ ticks < MaxTicks
    /\ LET forces == compute_forces(charges)
           moved == update_physics(charges, forces, dt, boundary)
       IN  /\ heap_charges' = [heap_charges EXCEPT ![self_charges] = moved]
           /\ trajectories' = Record(trajectories, moved)
    /\ ticks' = ticks + 1
    /\ last' = "update"
    /\ UNCHANGED <<heap_colors, self_charges, self_colors, current_preset, dt,
                   running, pause_btn>>

update ==
    \/ /\ ~running
       /\ last' = "update"
       /\ UNCHANGED <<heap_charges, heap_colors, self_charges, self_colors,
                      current_preset, trajectories, dt, running, pause_btn, ticks>>
    \/ /\ running
       /\ ticks < MaxTicks
       /\ LET forces == compute_forces(charges)
              moved == update_physics(charges, forces, dt, boundary)
          IN  /\ heap_charges' = [heap_charges EXCEPT ![self_charges] = moved]
              /\ trajectories' = Record(trajectories, moved)
       /\ ticks' = ticks + 1
       /\ last' = "update"
       /\ UNCHANGED <<heap_colors, self_charges, self_colors, current_preset, dt,
                      running, pause_btn>>

(***************************************************************************)
(* ChargeSimulation.reset_simulation.  MainWindow.load_preset calls it     *)
(* with the index chosen in the combo box, the Reset button with           *)
(* current_preset; None is the default of the parameter.                   *)
(***************************************************************************)
\* Faulty variant of reset_simulation: the reset also pauses the simulation.
reset_simulation_paused(preset_index) ==
    /\ current_preset' = IF preset_index # None THEN preset_index ELSE current_preset
    /\ LoadPreset(current_preset')
    /\ running' = FALSE
    /\ last' = "reset_simulation"
    /\ UNCHANGED <<dt, pause_btn>>

reset_simulation(preset_index) ==
    /\ current_preset' = IF preset_index # None THEN preset_index ELSE current_preset
    /\ LoadPreset(current_preset')
    /\ last' = "reset_simulation"
    /\ UNCHANGED <<dt, running, pause_btn>>

(***************************************************************************)
(* MainWindow.update_dt, the slider's valueChanged callback.               *)
(***************************************************************************)
update_dt(value) ==
    /\ value # dt
    /\ dt' = value
    /\ last' = "update_dt"
    /\ UNCHANGED <<heap_charges, heap_colors, self_charges, self_colors,
                   current_preset, trajectories, running, pause_btn, ticks>>

(***************************************************************************)
(* MainWindow.toggle_pause, the Pause button's callback.                   *)
(***************************************************************************)
toggle_pause ==
    /\ running' = ~running
    /\ pause_btn' = IF ~running' THEN "Resume" ELSE "Pause"
    /\ last' = "toggle_pause"
    /\ UNCHANGED <<heap_charges, heap_colors, self_charges, self_colors,
                   current_preset, trajectories, dt, ticks>>

Next ==
    \/ update
    \/ \E preset_index \in PresetIndex \cup {None} : reset_simulation(preset_index)
    \/ \E value \in SliderValues : update_dt(value)
    \/ toggle_pause

Spec == Init /\ [][Next]_vars

(***************************************************************************)
(* Properties.                                                             *)
(***************************************************************************)
N == Len(charges)

IsActive(ch) == ch.active

\* A step in which update ran while the simulation was running.
RunningTick == running /\ last' = "update"

\* C1: in every running tick, for two active particles at distinct
\* positions taken as a pair, compute_forces attracts opposite charges (each
\* force points toward the other particle) and repels like charges (each
\* force points away); in the first tick of "Dipole" at the default dt, the
\* force on particle 1 and its resulting velocity are along +x, toward
\* particle 2.
C1_CoulombSignRule ==
    [][RunningTick =>
          /\ \A i, j \in 1..N :
                (i < j /\ charges[i].active /\ charges[j].active
                       /\ charges[i].pos # charges[j].pos) =>
                   LET r == VSub(charges[j].pos, charges[i].pos)
                       F == compute_forces(<<charges[i], charges[j]>>)
                   IN  /\ charges[i].q * charges[j].q < 0 =>
                              Dot(F[1], r) >= 0 /\ Dot(F[2], r) <= 0
                       /\ charges[i].q * charges[j].q > 0 =>
                              Dot(F[1], r) <= 0 /\ Dot(F[2], r) >= 0
          /\ (current_preset = 1 /\ ticks = 0 /\ dt = default_dt) =>
                /\ compute_forces(charges)[1][1] > 0
                /\ charges'[1].vel[1] > 0]_vars

\* C2: once a particle is inactive, every step that is not a reset leaves
\* it inactive, with the position and the velocity it had.
C2_DeactivationPermanent ==
    [][last' # "reset_simulation" =>
          \A i \in 1..N :
             ~charges[i].active =>
                /\ ~charges'[i].active
                /\ charges'[i].pos = charges[i].pos
                /\ charges'[i].vel = charges[i].vel]_vars

\* A particle with a velocity was inactive during a later tick: its last two
\* recorded positions are the same.
C2_Witness ==
    \E i \in 1..N :
        /\ ~charges[i].active
        /\ charges[i].vel # Zero3
        /\ ticks >= 2
        /\ trajectories[i][ticks] = trajectories[i][ticks - 1]

\* C3: compute_forces returns one vector per particle, in order; the vector
\* of an inactive particle is zero, and the vector of an active particle is
\* the one compute_forces returns for it on the array of the active
\* particles alone.
C3_InactiveExcluded ==
    LET F == compute_forces(charges)
        G == compute_forces(SelectSeq(charges, IsActive))
        rank(i) == Cardinality({k \in 1..i : charges[k].active})
    IN  /\ DOMAIN F = 1..N
        /\ \A i \in 1..N :
              IF charges[i].active THEN F[i] = G[rank(i)] ELSE F[i] = Zero3

\* An inactive particle lies so near an active one that the pair would
\* exert a force, and the active particles exert forces on each other.
C3_Witness ==
    \E i, j \in 1..N :
        /\ ~charges[i].active
        /\ charges[j].active
        /\ force_mag(charges[i].q, charges[j].q,
                     VSub(charges[j].pos, charges[i].pos)) # 0
        /\ compute_forces(charges)[j] # Zero3

C5_HardCutoff ==
    [][RunningTick =>
          \A i \in 1..N :
             charges[i].active =>
                /\ ~charges'[i].active <=>
                      \E c \in 1..3 : \/ charges'[i].pos[c] < boundary[1]
                                      \/ charges'[i].pos[c] > boundary[2]
                /\ charges'[i].pos = VAdd(charges[i].pos, VScale(dt, charges'[i].vel))]_vars

\* A particle stood exactly on the boundary after one tick, still active
\* (the next tick moved it), and is beyond the boundary and inactive now.
C5_Witness ==
    \E i \in 1..N :
        /\ ticks >= 2
        /\ trajectories[i][ticks - 1][1] = boundary[2]
        /\ trajectories[i][ticks][1] > boundary[2]
        /\ charges[i].pos = trajectories[i][ticks]
        /\ ~charges[i].active

\* C6: every trajectory has as many entries as ticks were advanced since the
\* last reset and, when it has any, ends with the particle's current
\* position; a running tick appends to every trajectory, of active and
\* inactive particles alike, the position after the integrator ran, and a
\* tick delivered while paused appends nothing.
C6_RecordEveryTick ==
    /\ [](\A i \in 1..N :
             /\ Len(trajectories[i]) = ticks
             /\ ticks > 0 => trajectories[i][ticks] = charges[i].pos)
    /\ [][/\ RunningTick =>
               /\ ticks' = ticks + 1
               /\ \A i \in 1..N :
                     trajectories'[i] = Append(trajectories[i], charges'[i].pos)
          /\ (~running /\ last' = "update") =>
               /\ ticks' = ticks
               /\ trajectories' = trajectories]_vars

\* Two ticks were recorded while one particle was active and another was
\* not.
C6_Witness ==
    /\ ticks >= 2
    /\ \E i, j \in 1..N :
          /\ ~charges[i].active
          /\ charges[j].active
          /\ Len(trajectories[i]) = ticks
          /\ Len(trajectories[j]) = ticks
          /\ trajectories[j][ticks] # trajectories[j][ticks - 1]

\* C7 (as claimed): after reset_simulation returns, running is false.
C7_ResetPauses == last = "reset_simulation" => ~running

\* C7 (amended): reset_simulation leaves the running flag, dt and the button
\* text as they were; a simulation that was running is running after the
\* reset.
C7_ResetKeepsRunning ==
    [][last' = "reset_simulation" =>
          /\ running' = running
          /\ dt' = dt
          /\ pause_btn' = pause_btn]_vars

\* A reset has just returned and the simulation is running.
C7_Witness == last = "reset_simulation" /\ running

\* C8: the arrays of every preset are those of the catalog as written; the
\* simulation's arrays are not the arrays of any preset; after construction
\* or a reset the simulation's arrays equal those of the current preset,
\* element for element.
C8_PresetsNeverMutated ==
    /\ \A p \in PresetIndex :
          /\ presets[p].charges = preset_configs[p].charges
          /\ presets[p].colors = preset_configs[p].colors
    /\ self_charges \notin PresetIndex
    /\ self_colors \notin PresetIndex
    /\ last \in {"__init__", "reset_simulation"} =>
          /\ charges = preset_configs[current_preset].charges
          /\ colors = preset_configs[current_preset].colors

\* Ticks have changed the simulation's array of a preset loaded by a reset,
\* after an earlier run on another preset.
C8_Witness ==
    /\ current_preset # 0
    /\ ticks >= 1
    /\ charges # preset_configs[current_preset].charges

\* C9: there are as many trajectories as charges and as colors; a tick does
\* not change the number of charges; after a reset every trajectory is empty
\* and current_preset is the index asked for, or the one it was when none
\* was given.
C9_IndexAligned ==
    /\ [](/\ Len(trajectories) = Len(charges)
          /\ Len(colors) = Len(charges)
          /\ last = "reset_simulation" => \A i \in 1..N : trajectories[i] = <<>>)
    /\ [][/\ last' = "update" => Len(charges') = Len(charges)
          /\ \A preset_index \in PresetIndex \cup {None} :
                reset_simulation(preset_index) =>
                   current_preset' = IF preset_index = None THEN current_preset
                                     ELSE preset_index]_vars

\* A reset has just switched to a preset of another size than the one the
\* simulation was built with.
C9_Witness ==
    /\ last = "reset_simulation"
    /\ Len(charges) # Len(preset_configs[0].charges)
    /\ Len(trajectories) = Len(charges)

\* C10: a tick delivered while paused changes no array, no trajectory,
\* neither dt nor current_preset nor the running flag; toggle_pause changes
\* the running flag and the button text and nothing else; the arrays and
\* the trajectories change only in a reset or in a tick delivered while
\* running.
C10_PausedTickNoOp ==
    [][/\ (~running /\ last' = "update") =>
             UNCHANGED <<heap_charges, heap_colors, self_charges, self_colors,
                         current_preset, trajectories, dt, running, pause_btn>>
       /\ last' = "toggle_pause" =>
             /\ running' = ~running
             /\ UNCHANGED <<heap_charges, heap_colors, self_charges, self_colors,
                            current_preset, trajectories, dt>>
       /\ (charges' # charges \/ trajectories' # trajectories) =>
             \/ last' = "reset_simulation"
             \/ RunningTick]_vars

\* A tick was delivered while the simulation was paused in mid-run.
C10_Witness == last = "update" /\ ~running /\ ticks >= 1

====
